---- MODULE Spec2Model ----
(***************************************************************************)
(* Model of the AddAtomicMutex lowering pass (src/src/AddAtomicMutex.cpp). *)
(*                                                                         *)
(* The IR is a set of records tagged by a kind field k.  Node identity,    *)
(* which IRGraphVisitor::include memoizes on, is modelled for Variable     *)
(* nodes: two Variable records with the same name and id are the same      *)
(* node object; every other node occurrence is an object of its own.       *)
(***************************************************************************)
EXTENDS Integers, Sequences, FiniteSets, TLC

VARIABLES phase, input, env, downgraded, tree, allocated_mutexes, aborted,
          visits, program, pc, xval, holder, inside

vars == <<phase, input, env, downgraded, tree, allocated_mutexes, aborted,
          visits, program, pc, xval, holder, inside>>

(***************************************************************************)
(* Bounds of the model.                                                    *)
(***************************************************************************)
\* distinct Variable node objects per let name
NumVarIds == 2
\* worker threads executing the emitted code
NumThreads == 2
\* the parallel loop variable x takes the values 0..MaxIndex
MaxIndex == 1

(***************************************************************************)
(* IR node constructors (the Halide IR nodes this pass inspects/builds).   *)
(***************************************************************************)
Undefined == [k |-> "Undefined"]

IntImm(v) == [k |-> "IntImm", value |-> v]

Variable(n, i) == [k |-> "Variable", name |-> n, id |-> i]

Load(n, idx) == [k |-> "Load", name |-> n, index |-> idx]

Let(n, v, b) == [k |-> "Let", name |-> n, value |-> v, body |-> b]

Mul(a, b) == [k |-> "Mul", a |-> a, b |-> b]

Call(n, as) == [k |-> "Call", name |-> n, args |-> as]

\* extent of dimension d of an output buffer: output_buffer.dim(d).extent()
DimExtent(buf, d) == [k |-> "DimExtent", buffer |-> buf, dim |-> d]

const_true == [k |-> "BoolImm", value |-> TRUE]

Store(n, p, v, idx) ==
    [k |-> "Store", name |-> n, predicate |-> p, value |-> v, index |-> idx]

LetStmt(n, v, b) == [k |-> "LetStmt", name |-> n, value |-> v, body |-> b]

Atomic(p, m, b) ==
    [k |-> "Atomic", producer_name |-> p, mutex_name |-> m, body |-> b]

Allocate(n, ty, mt, ext, cond, b, ne, ff) ==
    [k |-> "Allocate", name |-> n, type |-> ty, memory_type |-> mt,
     extents |-> ext, condition |-> cond, body |-> b, new_expr |-> ne,
     free_function |-> ff]

ProducerConsumer(n, isp, b) ==
    [k |-> "ProducerConsumer", name |-> n, is_producer |-> isp, body |-> b]

Block(f, r) == [k |-> "Block", first |-> f, rest |-> r]

Evaluate(v) == [k |-> "Evaluate", value |-> v]

(***************************************************************************)
(* Scope<Expr>: push of one binding, innermost binding wins.  The scope is  *)
(* passed down the traversal, so leaving a let restores the outer scope.   *)
(***************************************************************************)
EmptyScope == [n \in {} |-> Undefined]

ScopedBinding(scope, n, v) ==
    [x \in DOMAIN scope \cup {n} |-> IF x = n THEN v ELSE scope[x]]

(***************************************************************************)
(* expr_uses_vars(e, vars, scope): does e depend on a name of vars,        *)
(* following the bindings of scope.  seen holds the names whose binding    *)
(* was already followed (the visitor follows each bound value once).       *)
(***************************************************************************)
RECURSIVE ExprUsesVars(_, _, _, _)
ExprUsesVars(e, names, scope, seen) ==
    CASE e.k = "Variable" ->
            \/ e.name \in names
            \/ /\ e.name \notin names
               /\ e.name \in DOMAIN scope
               /\ e.name \notin seen
               /\ ExprUsesVars(scope[e.name], names, scope, seen \cup {e.name})
      [] e.k = "Load" ->
            \/ e.name \in names
            \/ ExprUsesVars(e.index, names, scope, seen)
      [] e.k = "Let" ->
            \/ ExprUsesVars(e.value, names, scope, seen)
            \/ ExprUsesVars(e.body, names,
                            ScopedBinding(scope, e.name, e.value),
                            seen \ {e.name})
      [] e.k = "Mul" ->
            \/ ExprUsesVars(e.a, names, scope, seen)
            \/ ExprUsesVars(e.b, names, scope, seen)
      [] OTHER -> FALSE

expr_uses_vars(e, names, scope) == ExprUsesVars(e, names, scope, {})

(***************************************************************************)
(* CollectStoreNames: the names of all Store nodes inside a statement.     *)
(***************************************************************************)
RECURSIVE CollectStoreNames(_)
CollectStoreNames(s) ==
    CASE s.k = "Store" -> {s.name}
      [] s.k = "LetStmt" -> CollectStoreNames(s.body)
      [] s.k = "Atomic" -> CollectStoreNames(s.body)
      [] s.k = "Allocate" -> CollectStoreNames(s.body)
      [] s.k = "ProducerConsumer" -> CollectStoreNames(s.body)
      [] s.k = "Block" -> CollectStoreNames(s.first) \cup CollectStoreNames(s.rest)
      [] OTHER -> {}

(***************************************************************************)
(* FindAtomicLetBindings.  st = [visited, found] is the visitor's state:   *)
(* visited is IRGraphVisitor's set of node objects already included, found *)
(* the result flag.  include() skips a node object met before.             *)
(***************************************************************************)
NodeId(e) == <<e.name, e.id>>

FinderStart == [visited |-> {}, found |-> FALSE]

\* IRGraphVisitor::include: was this node object included before
Included(e, st) == NodeId(e) \in st.visited

MarkIncluded(e, st) == [st EXCEPT !.visited = @ \cup {NodeId(e)}]

\* the check made for a variable wherever it stands
FindAtomicLetBindings_Variable_Anywhere(e, store_names, let_bindings, inside_store, st) ==
    [st EXCEPT !.found = @ \/ expr_uses_vars(e, store_names, let_bindings)]

FindAtomicLetBindings_Variable(e, store_names, let_bindings, inside_store, st) ==
    [st EXCEPT !.found =
        \/ @
        \/ /\ inside_store # ""
           /\ expr_uses_vars(e, store_names, let_bindings)]

RECURSIVE FindAtomicLetBindings(_, _, _, _, _)
RECURSIVE FindAtomicLetBindingsSeq(_, _, _, _, _, _)
\* include() of each expression of a list (extents, args), in order from i
FindAtomicLetBindingsSeq(es, i, store_names, let_bindings, inside_store, st) ==
    IF i > Len(es)
    THEN st
    ELSE FindAtomicLetBindingsSeq(es, i + 1, store_names, let_bindings,
            inside_store,
            FindAtomicLetBindings(es[i], store_names, let_bindings,
                                  inside_store, st))

FindAtomicLetBindings(node, store_names, let_bindings, inside_store, st) ==
    CASE node.k = "Variable" ->
            IF Included(node, st)
            THEN st
            ELSE FindAtomicLetBindings_Variable(node, store_names,
                    let_bindings, inside_store, MarkIncluded(node, st))
      [] node.k = "Load" ->
            FindAtomicLetBindings(node.index, store_names, let_bindings,
                                  inside_store, st)
      [] node.k = "Mul" ->
            LET s1 == FindAtomicLetBindings(node.a, store_names, let_bindings,
                                            inside_store, st)
            IN FindAtomicLetBindings(node.b, store_names, let_bindings,
                                     inside_store, s1)
      [] node.k \in {"Let", "LetStmt"} ->
            LET s1 == FindAtomicLetBindings(node.value, store_names,
                                            let_bindings, inside_store, st)
            IN FindAtomicLetBindings(node.body, store_names,
                    ScopedBinding(let_bindings, node.name, node.value),
                    inside_store, s1)
      [] node.k = "Store" ->
            LET s1 == FindAtomicLetBindings(node.predicate, store_names,
                                            let_bindings, inside_store, st)
                s2 == FindAtomicLetBindings(node.value, store_names,
                        let_bindings,
                        IF node.name \in store_names THEN node.name
                                                     ELSE inside_store,
                        s1)
            IN FindAtomicLetBindings(node.index, store_names, let_bindings,
                                     inside_store, s2)
      [] node.k \in {"Atomic", "ProducerConsumer"} ->
            FindAtomicLetBindings(node.body, store_names, let_bindings,
                                  inside_store, st)
      [] node.k = "Allocate" ->
            LET s1 == FindAtomicLetBindingsSeq(node.extents, 1, store_names,
                                               let_bindings, inside_store, st)
                s2 == FindAtomicLetBindings(node.condition, store_names,
                                            let_bindings, inside_store, s1)
                s3 == FindAtomicLetBindings(node.new_expr, store_names,
                                            let_bindings, inside_store, s2)
            IN FindAtomicLetBindings(node.body, store_names, let_bindings,
                                     inside_store, s3)
      [] node.k = "Call" ->
            FindAtomicLetBindingsSeq(node.args, 1, store_names, let_bindings,
                                     inside_store, st)
      [] node.k = "Evaluate" ->
            FindAtomicLetBindings(node.value, store_names, let_bindings,
                                  inside_store, st)
      [] node.k = "Block" ->
            LET s1 == FindAtomicLetBindings(node.first, store_names,
                                            let_bindings, inside_store, st)
            IN FindAtomicLetBindings(node.rest, store_names, let_bindings,
                                     inside_store, s1)
      [] OTHER -> st

\* finder.found after op->body.accept(&finder) of visit(const Atomic *)
NeedsMutex(body) ==
    FindAtomicLetBindings(body, CollectStoreNames(body), EmptyScope, "",
                          FinderStart).found

(***************************************************************************)
(* RemoveUnnecessaryMutexUse: the downgrade analyzer (an IRMutator).       *)
(***************************************************************************)
RECURSIVE RemoveUnnecessaryMutexUse(_)
\* the two names of Atomic::make given in the wrong order when clearing
RemoveUnnecessaryMutexUse_Atomic_Swapped(op) ==
    IF NeedsMutex(op.body)
    THEN Atomic(op.producer_name, op.mutex_name,
                RemoveUnnecessaryMutexUse(op.body))
    ELSE Atomic("", op.producer_name, RemoveUnnecessaryMutexUse(op.body))

RemoveUnnecessaryMutexUse_Atomic(op) ==
    IF NeedsMutex(op.body)
    THEN Atomic(op.producer_name, op.mutex_name,
                RemoveUnnecessaryMutexUse(op.body))
    ELSE Atomic(op.producer_name, "", RemoveUnnecessaryMutexUse(op.body))

RemoveUnnecessaryMutexUse(s) ==
    CASE s.k = "Atomic" -> RemoveUnnecessaryMutexUse_Atomic(s)
      [] s.k \in {"LetStmt", "Allocate", "ProducerConsumer"} ->
            [s EXCEPT !.body = RemoveUnnecessaryMutexUse(s.body)]
      [] s.k = "Block" ->
            Block(RemoveUnnecessaryMutexUse(s.first),
                  RemoveUnnecessaryMutexUse(s.rest))
      [] OTHER -> s

(***************************************************************************)
(* FindStoreInAtomicMutex: is there a Store to one of store_names inside   *)
(* an Atomic node that requires a mutex.  st = [found, producer_name,      *)
(* mutex_name]; in_atomic_mutex is the scoped flag.                        *)
(***************************************************************************)
StoreFinderStart == [found |-> FALSE, producer_name |-> "", mutex_name |-> ""]

RECURSIVE FindStoreInAtomicMutex(_, _, _, _)
FindStoreInAtomicMutex_Atomic(op, store_names, in_atomic_mutex, st) ==
    IF ~st.found /\ op.mutex_name # ""
    THEN LET s1 == FindStoreInAtomicMutex(op.body, store_names, TRUE, st)
         IN IF s1.found
            THEN [found |-> TRUE, producer_name |-> op.producer_name,
                  mutex_name |-> op.mutex_name]
            ELSE s1
    ELSE FindStoreInAtomicMutex(op.body, store_names, in_atomic_mutex, st)

FindStoreInAtomicMutex_Store(op, store_names, in_atomic_mutex, st) ==
    IF in_atomic_mutex /\ op.name \in store_names
    THEN [st EXCEPT !.found = TRUE]
    ELSE st

FindStoreInAtomicMutex(s, store_names, in_atomic_mutex, st) ==
    CASE s.k = "Atomic" ->
            FindStoreInAtomicMutex_Atomic(s, store_names, in_atomic_mutex, st)
      [] s.k = "Store" ->
            FindStoreInAtomicMutex_Store(s, store_names, in_atomic_mutex, st)
      [] s.k \in {"LetStmt", "Allocate", "ProducerConsumer"} ->
            FindStoreInAtomicMutex(s.body, store_names, in_atomic_mutex, st)
      [] s.k = "Block" ->
            FindStoreInAtomicMutex(s.rest, store_names, in_atomic_mutex,
                FindStoreInAtomicMutex(s.first, store_names, in_atomic_mutex, st))
      [] OTHER -> st

(***************************************************************************)
(* FindStoreIndex: the index of the first Store met in traversal order,    *)
(* Undefined when the statement holds no Store.                            *)
(***************************************************************************)
RECURSIVE FindStoreIndex(_, _)
\* without the early return every store overwrites the index
FindStoreIndex_Store_Last(op, index) == op.index

FindStoreIndex_Store(op, index) ==
    IF index # Undefined THEN index ELSE op.index

FindStoreIndex(s, index) ==
    CASE s.k = "Store" -> FindStoreIndex_Store(s, index)
      [] s.k \in {"LetStmt", "Atomic", "Allocate", "ProducerConsumer"} ->
            FindStoreIndex(s.body, index)
      [] s.k = "Block" ->
            FindStoreIndex(s.rest, FindStoreIndex(s.first, index))
      [] OTHER -> index

(***************************************************************************)
(* AddAtomicMutex: the mutex synthesizer (an IRMutator).  st carries the   *)
(* mutator's allocated_mutexes, whether internal_assert aborted, and the   *)
(* record of the Allocate nodes it visited; the result adds the rewritten  *)
(* statement.                                                              *)
(***************************************************************************)
allocate_mutex(mutex_name, extent, body) ==
    Allocate(mutex_name, "Handle", "Stack", <<>>, const_true, body,
             Call("halide_mutex_array_create", <<extent>>),
             "halide_mutex_array_destroy")

\* the loop assigning each extent instead of multiplying by it
RECURSIVE ExtentProduct_Overwrite(_, _, _)
ExtentProduct_Overwrite(extents, i, extent) ==
    IF i > Len(extents)
    THEN extent
    ELSE ExtentProduct_Overwrite(extents, i + 1, extents[i])

\* extent = Expr(1); for (Expr e : extents) extent = extent * e;
RECURSIVE ExtentProduct(_, _, _)
ExtentProduct(extents, i, extent) ==
    IF i > Len(extents)
    THEN extent
    ELSE ExtentProduct(extents, i + 1, Mul(extent, extents[i]))

\* extent = Expr(1); for i < dimensions: extent = extent * dim(i).extent()
RECURSIVE OutputExtentProduct(_, _, _)
OutputExtentProduct(output_buffer, i, extent) ==
    IF i >= output_buffer.dimensions
    THEN extent
    ELSE OutputExtentProduct(output_buffer, i + 1,
                             Mul(extent, DimExtent(output_buffer.name, i)))

MutatorStart == [allocated |-> {}, aborted |-> FALSE, visits |-> <<>>]

Result(stmt, st) ==
    [stmt |-> stmt, allocated |-> st.allocated, aborted |-> st.aborted,
     visits |-> st.visits]

State(r) ==
    [allocated |-> r.allocated, aborted |-> r.aborted, visits |-> r.visits]

Aborted(st) == Result(Undefined, [st EXCEPT !.aborted = TRUE])

\* Lock and unlock around the body, indexed by the first store's index.
AddAtomicMutex_Atomic_Wrap(op) ==
    LET find == FindStoreIndex(op.body, Undefined)
        index == IF find = Undefined THEN IntImm(0) ELSE find
        body == op.body
        mutex_array == Variable(op.mutex_name, 0)
    IN Atomic(op.producer_name, op.mutex_name,
              Block(Evaluate(Call("halide_mutex_array_lock",
                                  <<mutex_array, index>>)),
                    Block(body,
                          Evaluate(Call("halide_mutex_array_unlock",
                                        <<mutex_array, index>>)))))

RECURSIVE AddAtomicMutex(_, _, _)
\* IRMutator::visit of a node with one body: rebuild it around the mutated body
AddAtomicMutex_Default(op, e, st) ==
    LET r == AddAtomicMutex(op.body, e, st)
    IN IF r.aborted THEN r ELSE [r EXCEPT !.stmt = [op EXCEPT !.body = r.stmt]]

AddAtomicMutex_Atomic(op, e, st) ==
    IF op.mutex_name = ""
    THEN AddAtomicMutex_Default(op, e, st)
    ELSE Result(AddAtomicMutex_Atomic_Wrap(op), st)

\* the rule without the test of allocated_mutexes
AddAtomicMutex_Site_NoCheck(op, e, st, finder, extent) ==
    IF ~finder.found
    THEN AddAtomicMutex_Default(op, e, st)
    ELSE LET r == AddAtomicMutex(op.body, e,
                     [st EXCEPT !.allocated = @ \cup {finder.mutex_name}])
         IN IF r.aborted
            THEN r
            ELSE [r EXCEPT !.stmt =
                    [op EXCEPT !.body =
                        allocate_mutex(finder.mutex_name, extent, r.stmt)]]

\* The part shared by the Allocate and the producer rule once the finder ran.
AddAtomicMutex_Site(op, e, st, finder, extent) ==
    IF ~finder.found \/ finder.mutex_name \in st.allocated
    THEN AddAtomicMutex_Default(op, e, st)
    ELSE LET r == AddAtomicMutex(op.body, e,
                     [st EXCEPT !.allocated = @ \cup {finder.mutex_name}])
         IN IF r.aborted
            THEN r
            ELSE [r EXCEPT !.stmt =
                    [op EXCEPT !.body =
                        allocate_mutex(finder.mutex_name, extent, r.stmt)]]

AddAtomicMutex_Allocate(op, e, st) ==
    LET finder == FindStoreInAtomicMutex(op.body, {op.name}, FALSE,
                                         StoreFinderStart)
        r == AddAtomicMutex_Site(op, e, st, finder,
                                 ExtentProduct(op.extents, 1, IntImm(1)))
    IN IF r.aborted
       THEN r
       ELSE [r EXCEPT !.visits =
                <<[op |-> op, before |-> st.allocated, out |-> r.stmt]>> \o @]

AddAtomicMutex_ProducerConsumer(op, e, st) ==
    IF ~op.is_producer
    THEN AddAtomicMutex_Default(op, e, st)
    ELSE LET f == e[op.name]
         IN IF Len(f) = 0
            THEN Aborted(st)
            ELSE LET store_names == {f[i].name : i \in 1..Len(f)}
                     finder == FindStoreInAtomicMutex(op.body, store_names,
                                                      FALSE, StoreFinderStart)
                 IN AddAtomicMutex_Site(op, e, st, finder,
                        OutputExtentProduct(f[1], 0, IntImm(1)))

AddAtomicMutex_Block(op, e, st) ==
    LET r1 == AddAtomicMutex(op.first, e, st)
    IN IF r1.aborted
       THEN r1
       ELSE LET r2 == AddAtomicMutex(op.rest, e, State(r1))
            IN IF r2.aborted
               THEN r2
               ELSE [r2 EXCEPT !.stmt = Block(r1.stmt, r2.stmt)]

AddAtomicMutex(s, e, st) ==
    CASE s.k = "Atomic" -> AddAtomicMutex_Atomic(s, e, st)
      [] s.k = "Allocate" -> AddAtomicMutex_Allocate(s, e, st)
      [] s.k = "ProducerConsumer" -> AddAtomicMutex_ProducerConsumer(s, e, st)
      [] s.k = "LetStmt" -> AddAtomicMutex_Default(s, e, st)
      [] s.k = "Block" -> AddAtomicMutex_Block(s, e, st)
      [] OTHER -> Result(s, st)

(***************************************************************************)
(* The emitted code as the worker threads run it: the statement flattened  *)
(* to a sequence of instructions.  begin/end mark the body of an atomic    *)
(* region with a non-empty mutex name, behind its lock call when it has    *)
(* one; index is the region's element index (its first store's index).     *)
(***************************************************************************)
IsCallTo(s, fn) ==
    /\ s.k = "Evaluate"
    /\ s.value.k = "Call"
    /\ s.value.name = fn

\* lock(M, i) ; body ; unlock(M, i), as visit(const Atomic *) builds it
IsWrapped(b) ==
    /\ b.k = "Block"
    /\ IsCallTo(b.first, "halide_mutex_array_lock")
    /\ b.rest.k = "Block"
    /\ IsCallTo(b.rest.rest, "halide_mutex_array_unlock")

RegionIndex(body) ==
    LET find == FindStoreIndex(body, Undefined)
    IN IF find = Undefined THEN IntImm(0) ELSE find

Instr(op, m, idx) == [op |-> op, mutex |-> m, index |-> idx]

RECURSIVE Flatten(_)
Flatten(s) ==
    CASE s.k = "Atomic" ->
            IF s.mutex_name = ""
            THEN Flatten(s.body)
            ELSE IF IsWrapped(s.body)
            THEN <<Instr("lock", s.body.first.value.args[1].name,
                         s.body.first.value.args[2]),
                   Instr("begin", s.mutex_name, RegionIndex(s.body))>>
                 \o Flatten(s.body.rest.first)
                 \o <<Instr("end", s.mutex_name, RegionIndex(s.body)),
                      Instr("unlock", s.body.rest.rest.value.args[1].name,
                            s.body.rest.rest.value.args[2])>>
            ELSE <<Instr("begin", s.mutex_name, RegionIndex(s.body))>>
                 \o Flatten(s.body)
                 \o <<Instr("end", s.mutex_name, RegionIndex(s.body))>>
      [] s.k = "Store" -> <<Instr("store", s.name, s.index)>>
      [] s.k \in {"LetStmt", "Allocate", "ProducerConsumer"} -> Flatten(s.body)
      [] s.k = "Block" -> Flatten(s.first) \o Flatten(s.rest)
      [] OTHER -> <<>>

Threads == 1..NumThreads

\* the value of an index expression in thread t: x is t's loop iteration
EvalIndex(e, xv) ==
    CASE e.k = "IntImm" -> e.value
      [] e.k = "Variable" /\ e.name = "x" -> xv
      [] OTHER -> 0

(***************************************************************************)
(* Input programs: a bounded family of statement trees and environments.   *)
(***************************************************************************)
Buffers == {"h", "g"}

MutexNames == {"m", "n"}

LetNames == {"t", "u"}

VarRefs == {Variable(n, i) : n \in LetNames, i \in 1..NumVarIds}

LoopVar == Variable("x", 1)

Zero == IntImm(0)

InputAllocate(n, ext, b) ==
    Allocate(n, "Int32", "Auto", ext, const_true, b, Undefined, "")

\* Bodies that exercise the let-binding analysis.
APreds == {const_true, Variable("t", 1)}

AValues ==
    {Load("h", Zero), Let("t", Load("h", Zero), Variable("t", 1))} \cup VarRefs

AIndices == {Zero, Variable("t", 1)}

AStores ==
    {Store(b, p, v, i) : b \in Buffers, p \in APreds, v \in AValues, i \in AIndices}

Bindings ==
    {<<n, v>> : n \in LetNames, v \in {Load("h", Zero), Zero}}
    \cup {<<"t", Variable("u", 1)>>, <<"t", Load("g", Zero)>>}

LetChains(S) ==
    S \cup {LetStmt(b[1], b[2], s) : b \in Bindings, s \in S}

FirstStores ==
    {Store(b, const_true, v, Zero) :
        b \in Buffers, v \in {Load("h", Zero), Variable("t", 1)}}

ABodies ==
    LetChains(LetChains(AStores))
    \cup {Block(s1, s2) : s1 \in FirstStores, s2 \in LetChains(AStores)}

AnalysisTrees == {Atomic("f", "m", b) : b \in ABodies}

\* Trees that exercise allocation sites, producers and nested regions.
Indices == {Zero, LoopVar}

DepLeaves ==
    {LetStmt("t", Load(b, Zero), Store(b, const_true, Variable("t", 1), i)) :
        b \in Buffers, i \in Indices}

PlainLeaves ==
    {Store(b, const_true, Load(b, Zero), i) : b \in Buffers, i \in Indices}

Leaves == DepLeaves \cup PlainLeaves \cup {Evaluate(Zero)}

RegionBodies ==
    Leaves \cup {Block(l1, l2) : l1 \in DepLeaves, l2 \in DepLeaves}

Regions0 ==
    {Atomic("f", m, b) : m \in MutexNames, b \in RegionBodies}
    \cup {Atomic("f", "", b) : b \in Leaves}

FirstLeaves ==
    {l \in DepLeaves \cup PlainLeaves :
        IF l.k = "Store" THEN l.name = "h" ELSE l.body.name = "h"}

Regions1 ==
    {Atomic("f", m1, Atomic("f", m2, l)) :
        m1 \in MutexNames, m2 \in MutexNames, l \in Leaves}
    \cup {Atomic("f", m1, Block(l1, Atomic("f", m2, l))) :
            m1 \in MutexNames, m2 \in MutexNames, l1 \in FirstLeaves,
            l \in Leaves}

Units == Regions0 \cup Regions1 \cup {Store("h", const_true, Zero, Zero)}

ExtentLists == {<<>>, <<IntImm(2)>>, <<IntImm(2), IntImm(3)>>}

AllocSites(S) ==
    {InputAllocate(b, ext, s) : b \in Buffers, ext \in ExtentLists, s \in S}

PlainAllocSites(S) ==
    {InputAllocate(b, <<IntImm(2)>>, s) : b \in Buffers, s \in S}

ProducerSites(S) ==
    {ProducerConsumer("f", isp, s) : isp \in BOOLEAN, s \in S}

SmallBodies ==
    LET dep(b, i) == LetStmt("t", Load(b, Zero),
                             Store(b, const_true, Variable("t", 1), i))
    IN {dep("h", Zero), dep("g", Zero), Evaluate(Zero),
        Block(dep("h", Zero), dep("h", LoopVar))}

SmallRegions == {Atomic("f", m, b) : m \in MutexNames, b \in SmallBodies}

SiblingAllocs ==
    LET W == PlainAllocSites(SmallRegions) \cup SmallRegions
    IN {Block(a, b) : a \in W, b \in W}

SiblingProducers ==
    LET W == PlainAllocSites(SmallRegions)
             \cup {ProducerConsumer("f", TRUE, r) : r \in SmallRegions}
    IN {Block(a, b) : a \in W, b \in W} \ SiblingAllocs

AllocTrees ==
    Units \cup AllocSites(Units) \cup PlainAllocSites(PlainAllocSites(Units))
    \cup SiblingAllocs

ProducerTrees ==
    ProducerSites(Units)
    \cup ProducerSites(PlainAllocSites(Units))
    \cup PlainAllocSites(ProducerSites(Units))
    \cup SiblingProducers

OutputBuffer(n, d) == [name |-> n, dimensions |-> d]

\* the output buffers the function declares
Envs ==
    {[fn \in {"f"} |-> outs] :
        outs \in {<<>>, <<OutputBuffer("h", 2)>>,
                  <<OutputBuffer("h", 1), OutputBuffer("g", 1)>>}}

DefaultEnv == [fn \in {"f"} |-> <<OutputBuffer("h", 2)>>]

Cases ==
    {[tree |-> s, env |-> DefaultEnv] : s \in AnalysisTrees \cup AllocTrees}
    \cup {[tree |-> s, env |-> e] : s \in ProducerTrees, e \in Envs}

\* The programs the worker threads are run on.
RunCases ==
    {[tree |-> s, env |-> DefaultEnv] :
        s \in PlainAllocSites(Regions0 \cup Regions1)}

(***************************************************************************)
(* The pipeline add_atomic_mutex as a state machine.                       *)
(***************************************************************************)
NoThreads ==
    /\ program = <<>>
    /\ pc = [t \in Threads |-> 0]
    /\ xval = [t \in Threads |-> 0]
    /\ holder = {}
    /\ inside = [t \in Threads |-> <<>>]

InitWith(C, ph) ==
    /\ \E c \in C : /\ input = c.tree
                     /\ tree = c.tree
                     /\ env = c.env
    /\ phase = ph
    /\ downgraded = Undefined
    /\ allocated_mutexes = {}
    /\ aborted = FALSE
    /\ visits = <<>>
    /\ NoThreads

Init == InitWith(Cases, "input")

\* s = RemoveUnnecessaryMutexUse().mutate(s);
Downgrade ==
    /\ phase = "input"
    /\ tree' = RemoveUnnecessaryMutexUse(tree)
    /\ downgraded' = tree'
    /\ phase' = "downgraded"
    /\ UNCHANGED <<input, env, allocated_mutexes, aborted, visits,
                   program, pc, xval, holder, inside>>

\* s = AddAtomicMutex(env).mutate(s);
Synthesize ==
    /\ phase = "downgraded"
    /\ LET r == AddAtomicMutex(tree, env, MutatorStart)
       IN /\ tree' = r.stmt
          /\ allocated_mutexes' = r.allocated
          /\ aborted' = r.aborted
          /\ visits' = r.visits
          /\ phase' = IF r.aborted THEN "aborted" ELSE "done"
    /\ UNCHANGED <<input, env, downgraded, program, pc, xval, holder, inside>>

Next == Downgrade \/ Synthesize

Spec == Init /\ [][Next]_vars

\* The synthesizer alone, run on any tree of the family.
InitSynth ==
    /\ \E c \in Cases : /\ input = c.tree
                         /\ tree = c.tree
                         /\ downgraded = c.tree
                         /\ env = c.env
    /\ phase = "downgraded"
    /\ allocated_mutexes = {}
    /\ aborted = FALSE
    /\ visits = <<>>
    /\ NoThreads

NextSynth == Synthesize

SpecSynth == InitSynth /\ [][NextSynth]_vars

(***************************************************************************)
(* Worker threads running the emitted code.  holder is the set of held     *)
(* mutexes <<array, index, thread>>; inside[t] the stack of atomic region  *)
(* bodies <<mutex name, index>> thread t is in.                            *)
(***************************************************************************)
StartThreads ==
    /\ phase = "done"
    /\ phase' = "running"
    /\ program' = Flatten(tree)
    /\ pc' = [t \in Threads |-> 1]
    /\ xval' \in [Threads -> 0..MaxIndex]
    /\ UNCHANGED <<input, env, downgraded, tree, allocated_mutexes, aborted,
                   visits, holder, inside>>

Held(m, i) == \E h \in holder : h[1] = m /\ h[2] = i

Step(t) ==
    /\ phase = "running"
    /\ pc[t] <= Len(program)
    /\ LET ins == program[pc[t]]
           i == EvalIndex(ins.index, xval[t])
       IN CASE ins.op = "lock" ->
                  /\ ~Held(ins.mutex, i)
                  /\ holder' = holder \cup {<<ins.mutex, i, t>>}
                  /\ UNCHANGED inside
            [] ins.op = "unlock" ->
                  /\ holder' = holder \ {<<ins.mutex, i, t>>}
                  /\ UNCHANGED inside
            [] ins.op = "begin" ->
                  /\ inside' = [inside EXCEPT ![t] = <<<<ins.mutex, i>>>> \o @]
                  /\ UNCHANGED holder
            [] ins.op = "end" ->
                  /\ inside' = [inside EXCEPT ![t] = Tail(@)]
                  /\ UNCHANGED holder
            [] OTHER -> UNCHANGED <<holder, inside>>
    /\ pc' = [pc EXCEPT ![t] = @ + 1]
    /\ UNCHANGED <<phase, input, env, downgraded, tree, allocated_mutexes,
                   aborted, visits, program, xval>>

InitRun == InitWith(RunCases, "input")

NextRun == Downgrade \/ Synthesize \/ StartThreads \/ \E t \in Threads : Step(t)

SpecRun == InitRun /\ [][NextRun]_vars

(***************************************************************************)
(* Vocabulary of the properties, defined on the trees alone.               *)
(***************************************************************************)
\* the Atomic nodes of a statement, in pre-order (nested ones included)
RECURSIVE AtomicNodes(_)
AtomicNodes(s) ==
    CASE s.k = "Atomic" -> <<s>> \o AtomicNodes(s.body)
      [] s.k \in {"LetStmt", "Allocate", "ProducerConsumer"} -> AtomicNodes(s.body)
      [] s.k = "Block" -> AtomicNodes(s.first) \o AtomicNodes(s.rest)
      [] OTHER -> <<>>

\* the Store nodes of a statement, in traversal order
RECURSIVE StoreSeq(_)
StoreSeq(s) ==
    CASE s.k = "Store" -> <<s>>
      [] s.k \in {"LetStmt", "Atomic", "Allocate", "ProducerConsumer"} ->
            StoreSeq(s.body)
      [] s.k = "Block" -> StoreSeq(s.first) \o StoreSeq(s.rest)
      [] OTHER -> <<>>

StoredBuffers(s) == {StoreSeq(s)[i].name : i \in 1..Len(StoreSeq(s))}

\* Some store of the statement has a value holding a variable reference that
\* depends, through the let-bindings active at it, on a name of names.
\* Every occurrence of a variable is looked at, shared node object or not.
RECURSIVE DependentStore(_, _, _, _)
DependentStore(node, names, scope, in_value) ==
    CASE node.k = "Variable" -> in_value /\ expr_uses_vars(node, names, scope)
      [] node.k = "Load" -> DependentStore(node.index, names, scope, in_value)
      [] node.k \in {"Let", "LetStmt"} ->
            \/ DependentStore(node.value, names, scope, in_value)
            \/ DependentStore(node.body, names,
                              ScopedBinding(scope, node.name, node.value),
                              in_value)
      [] node.k = "Store" -> DependentStore(node.value, names, scope, TRUE)
      [] node.k \in {"Atomic", "Allocate", "ProducerConsumer"} ->
            DependentStore(node.body, names, scope, in_value)
      [] node.k = "Block" ->
            \/ DependentStore(node.first, names, scope, in_value)
            \/ DependentStore(node.rest, names, scope, in_value)
      [] OTHER -> FALSE

HasDependency(body) ==
    DependentStore(body, StoredBuffers(body), EmptyScope, FALSE)

IsMutexDecl(s) ==
    /\ s.k = "Allocate"
    /\ s.new_expr.k = "Call"
    /\ s.new_expr.name = "halide_mutex_array_create"
    /\ s.free_function = "halide_mutex_array_destroy"

\* the mutex-array declarations of a statement, in pre-order
RECURSIVE MutexDecls(_)
MutexDecls(s) ==
    CASE s.k = "Allocate" ->
            (IF IsMutexDecl(s) THEN <<s.name>> ELSE <<>>) \o MutexDecls(s.body)
      [] s.k \in {"LetStmt", "Atomic", "ProducerConsumer"} -> MutexDecls(s.body)
      [] s.k = "Block" -> MutexDecls(s.first) \o MutexDecls(s.rest)
      [] OTHER -> <<>>

DeclCount(s, m) ==
    Cardinality({i \in 1..Len(MutexDecls(s)) : MutexDecls(s)[i] = m})

\* the mutex names of the lock-requiring regions that no declaration of that
\* name encloses
RECURSIVE Unenclosed(_, _)
Unenclosed(s, declared) ==
    CASE s.k = "Atomic" ->
            (IF s.mutex_name # "" /\ s.mutex_name \notin declared
             THEN {s.mutex_name} ELSE {})
            \cup Unenclosed(s.body, declared)
      [] s.k = "Allocate" ->
            Unenclosed(s.body,
                       IF IsMutexDecl(s) THEN declared \cup {s.name} ELSE declared)
      [] s.k \in {"LetStmt", "ProducerConsumer"} -> Unenclosed(s.body, declared)
      [] s.k = "Block" ->
            Unenclosed(s.first, declared) \cup Unenclosed(s.rest, declared)
      [] OTHER -> {}

\* body is lock(m, i) ; b ; unlock(m, i) for the mutex array m and one index i
WrappedWith(body, m) ==
    /\ IsWrapped(body)
    /\ body.first.value.args[1] = Variable(m, 0)
    /\ body.rest.rest.value.args = body.first.value.args

\* the mutex names of the lock-requiring regions of s that hold a store to a
\* buffer of names
ProtectingMutexes(s, names) ==
    {AtomicNodes(s)[i].mutex_name :
        i \in {j \in 1..Len(AtomicNodes(s)) :
                  /\ AtomicNodes(s)[j].mutex_name # ""
                  /\ StoredBuffers(AtomicNodes(s)[j].body) \cap names # {}}}

\* s without what the synthesizer adds: declarations and lock/unlock calls
RECURSIVE Erase(_)
Erase(s) ==
    CASE s.k = "Allocate" ->
            IF IsMutexDecl(s) THEN Erase(s.body)
            ELSE [s EXCEPT !.body = Erase(s.body)]
      [] s.k = "Atomic" ->
            IF s.mutex_name # "" /\ IsWrapped(s.body)
            THEN [s EXCEPT !.body = Erase(s.body.rest.first)]
            ELSE [s EXCEPT !.body = Erase(s.body)]
      [] s.k \in {"LetStmt", "ProducerConsumer"} ->
            [s EXCEPT !.body = Erase(s.body)]
      [] s.k = "Block" -> Block(Erase(s.first), Erase(s.rest))
      [] OTHER -> s

\* the value of a constant extent expression
RECURSIVE EvalConst(_)
EvalConst(e) ==
    CASE e.k = "IntImm" -> e.value
      [] e.k = "Mul" -> EvalConst(e.a) * EvalConst(e.b)
      [] OTHER -> 1

RECURSIVE Product(_)
Product(es) == IF es = <<>> THEN 1 ELSE EvalConst(Head(es)) * Product(Tail(es))

\* a producer node whose function declares no output buffer and that holds a
\* lock-requiring atomic region
RECURSIVE UnsupportedProducer(_, _)
UnsupportedProducer(s, e) ==
    CASE s.k = "ProducerConsumer" ->
            \/ /\ s.is_producer
               /\ Len(e[s.name]) = 0
               /\ \E i \in 1..Len(AtomicNodes(s.body)) :
                      AtomicNodes(s.body)[i].mutex_name # ""
            \/ UnsupportedProducer(s.body, e)
      [] s.k \in {"LetStmt", "Atomic", "Allocate"} -> UnsupportedProducer(s.body, e)
      [] s.k = "Block" ->
            UnsupportedProducer(s.first, e) \/ UnsupportedProducer(s.rest, e)
      [] OTHER -> FALSE

\* every atomic region lies under an Allocate or a producer-phase node
RECURSIVE UnderSite(_, _)
UnderSite(s, under) ==
    CASE s.k = "Atomic" -> under /\ UnderSite(s.body, under)
      [] s.k = "Allocate" -> UnderSite(s.body, TRUE)
      [] s.k = "ProducerConsumer" -> UnderSite(s.body, under \/ s.is_producer)
      [] s.k = "LetStmt" -> UnderSite(s.body, under)
      [] s.k = "Block" -> UnderSite(s.first, under) /\ UnderSite(s.rest, under)
      [] OTHER -> TRUE

In(i) == AtomicNodes(input)[i]
Down(i) == AtomicNodes(downgraded)[i]
Out(i) == AtomicNodes(tree)[i]
RegionIds == 1..Len(AtomicNodes(input))
Analyzed == downgraded # Undefined

(***************************************************************************)
(* The claims.                                                             *)
(***************************************************************************)
\* C1: a region whose body holds a store whose value has a variable
\* reference depending, through the let-bindings active at it, on a buffer
\* stored to in that body keeps its mutex name in the downgrade analyzer,
\* shared variable nodes included.
C1_DowngradeSound ==
    Analyzed =>
        \A i \in RegionIds :
            HasDependency(In(i).body) => Down(i).mutex_name = In(i).mutex_name

\* C2: in the output every atomic region with a non-empty mutex name M has
\* the body lock(M, i) ; body ; unlock(M, i), nested regions included.
C2_EveryRegionWrapped ==
    phase = "done" =>
        \A i \in RegionIds :
            Out(i).mutex_name # "" => WrappedWith(Out(i).body, Out(i).mutex_name)

\* C3: in the output every atomic region with a non-empty mutex name M is
\* enclosed by a mutex-array declaration named M.  Stated for the inputs
\* whose regions all lie under an allocation or a producer node.
C3_RegionsEnclosed ==
    (phase = "done" /\ UnderSite(input, FALSE)) => Unenclosed(tree, {}) = {}

\* C4: one run of the synthesizer emits at most one mutex-array declaration
\* per mutex name; the names declared are the allocated names, a set that
\* starts empty and has every earlier value as a subset.
C4_OneDeclPerName ==
    /\ phase = "downgraded" => allocated_mutexes = {}
    /\ phase = "done" =>
          /\ \A m \in MutexNames : DeclCount(tree, m) <= 1
          /\ allocated_mutexes = {m \in MutexNames : DeclCount(tree, m) = 1}
          /\ \A j \in 1..Len(visits) : visits[j].before \subseteq allocated_mutexes

\* two allocation sites hold protected stores of one mutex name, which is
\* declared once
C4_Witness ==
    /\ phase = "done"
    /\ Len(visits) >= 2
    /\ \E m \in MutexNames :
          /\ DeclCount(tree, m) = 1
          /\ \A j \in 1..Len(visits) :
                m \in ProtectingMutexes(visits[j].op.body, {visits[j].op.name})

\* C5: the pipeline aborts exactly when a producer node whose function
\* declares no output buffer holds a lock-requiring atomic region.
C5_AbortExactly ==
    phase \in {"done", "aborted"} =>
        (aborted <=> UnsupportedProducer(downgraded, env))

\* C6: every region keeps its producer name; the analyzer leaves its mutex
\* name as it is or clears it, and the synthesizer does not change it.
C6_NamesKept ==
    /\ Analyzed =>
          /\ Len(AtomicNodes(downgraded)) = Len(AtomicNodes(input))
          /\ \A i \in RegionIds :
                /\ Down(i).producer_name = In(i).producer_name
                /\ Down(i).mutex_name \in {In(i).mutex_name, ""}
    /\ phase = "done" =>
          /\ Len(AtomicNodes(tree)) = Len(AtomicNodes(downgraded))
          /\ \A i \in RegionIds :
                /\ Out(i).producer_name = Down(i).producer_name
                /\ Out(i).mutex_name = Down(i).mutex_name

\* one region was cleared, another kept its name, one had no name at all
C6_Witness ==
    /\ phase = "done"
    /\ \E i \in RegionIds : In(i).mutex_name # "" /\ Out(i).mutex_name = ""
    /\ \E i \in RegionIds : In(i).mutex_name # "" /\ Out(i).mutex_name = In(i).mutex_name

\* C7: an Allocate node whose body holds a lock-requiring region with a
\* store to its buffer, none of whose mutex names was allocated before,
\* keeps its fields and gets as body one mutex-array declaration around
\* the processed body, created with 1*e1*...*ek and destroyed by
\* halide_mutex_array_destroy; with no such store it gets no declaration.
C7_AllocateRewrite ==
    \A j \in 1..Len(visits) :
        LET op == visits[j].op
            out == visits[j].out
            PM == ProtectingMutexes(op.body, {op.name})
        IN /\ out = [op EXCEPT !.body = out.body]
           /\ (PM # {} /\ PM \cap visits[j].before = {}) =>
                 /\ IsMutexDecl(out.body)
                 /\ out.body.name \in PM
                 /\ out.body.extents = <<>>
                 /\ Len(out.body.new_expr.args) = 1
                 /\ EvalConst(out.body.new_expr.args[1]) = Product(op.extents)
                 /\ ~IsMutexDecl(out.body.body)
                 /\ DeclCount(out, out.body.name) = 1
                 /\ Erase(out.body.body) = op.body
           /\ PM = {} =>
                 /\ ~IsMutexDecl(out.body)
                 /\ Erase(out.body) = op.body

\* an Allocate node with two extents got its declaration
C7_Witness ==
    \E j \in 1..Len(visits) :
        /\ Len(visits[j].op.extents) = 2
        /\ ProtectingMutexes(visits[j].op.body, {visits[j].op.name}) # {}
        /\ IsMutexDecl(visits[j].out.body)

\* C8: a region whose body holds no dependent store is cleared by the
\* analyzer, as are the regions nested in it, and the synthesizer puts no
\* lock/unlock calls around its body.
C8_DowngradeComplete ==
    /\ Analyzed =>
          \A i \in RegionIds :
              ~HasDependency(In(i).body) => Down(i).mutex_name = ""
    /\ phase = "done" =>
          \A i \in RegionIds :
              ~HasDependency(In(i).body) =>
                  /\ Out(i).mutex_name = ""
                  /\ ~IsWrapped(Out(i).body)
                  /\ Out(i).body = Down(i).body

\* a named region without dependency, holding a nested named region, was
\* cleared
C8_Witness ==
    /\ phase = "done"
    /\ \E i \in RegionIds :
          /\ In(i).mutex_name # ""
          /\ ~HasDependency(In(i).body)
          /\ Out(i).mutex_name = ""
          /\ \E j \in 1..Len(AtomicNodes(In(i).body)) :
                AtomicNodes(In(i).body)[j].mutex_name # ""

\* C9: the index of the lock and of the unlock call of a region is the
\* index of the first store of its body in traversal order, 0 without one.
C9_LockIndex ==
    phase = "done" =>
        \A i \in RegionIds :
            (Out(i).mutex_name # "" /\ IsWrapped(Out(i).body)) =>
                LET stores == StoreSeq(Down(i).body)
                    first == IF stores = <<>> THEN IntImm(0) ELSE stores[1].index
                IN /\ Out(i).body.first.value.args[2] = first
                   /\ Out(i).body.rest.rest.value.args[2] = first

\* a locked region with two stores of different indices, and a locked
\* region without any store
C9_Witness ==
    /\ phase = "done"
    /\ \E i \in RegionIds :
          /\ IsWrapped(Out(i).body)
          /\ Len(StoreSeq(Down(i).body)) >= 2
          /\ StoreSeq(Down(i).body)[1].index # StoreSeq(Down(i).body)[2].index
    /\ \E i \in RegionIds :
          /\ Out(i).mutex_name # ""
          /\ IsWrapped(Out(i).body)
          /\ StoreSeq(Down(i).body) = <<>>

\* C10: no two threads are at once inside bodies of atomic regions that
\* name the same mutex array and have the same element index.
C10_MutualExclusion ==
    \A t1 \in Threads : \A t2 \in Threads \ {t1} :
        \A a \in 1..Len(inside[t1]) : \A b \in 1..Len(inside[t2]) :
            inside[t1][a] # inside[t2][b]

====
